---- MODULE Spec2Model ----
(***************************************************************************)
(* Model of the KLayout/Qt matplotlib backend (backend_klayoutqt):         *)
(*   - the draw/paint adapter of FigureCanvasQT / FigureCanvasQTAgg        *)
(*     (draw, draw_idle, _draw_idle, paintEvent, resizeEvent),             *)
(*   - the mouse coordinate conversion (mouseEventCoords),                 *)
(*   - the key event translation (_mpl_modifiers, _get_key),               *)
(*   - the toolbar's save_figure, pan/zoom and history buttons,            *)
(*   - TimerQT and its native timer,                                       *)
(*   - ToolbarQt's tool items (add_toolitem, toggle_toolitem).             *)
(* All handlers run on the single GUI thread.  A handler is one action,    *)
(* except where it calls out into the plotting library (the render pass    *)
(* inside draw(), the resize_event callbacks inside resizeEvent): there    *)
(* the handler is suspended on `stack` and other calls may re-enter the    *)
(* canvas before it resumes.                                               *)
(***************************************************************************)
EXTENDS Integers, Sequences, FiniteSets, TLC

\* ------------------------------------------------------------------ bounds
\* largest logical widget width/height delivered by a resize
MaxDim == 1
\* draw_idle() calls counted per pending request (the count saturates here)
MaxReqs == 2
\* deepest nesting of suspended handlers explored
MaxDepth == 2
\* largest device pixel ratio, figure height and mouse coordinate (MouseSpec)
MaxRatio == 3
MaxFigH == 4
MaxPos == 3

\* widget widths/heights: _draw_idle tests for negative sizes, so -1 is one
Dims == (-1)..MaxDim

\* ------------------------------------------------------------ state
VARIABLES
    draw_pending,       \* FigureCanvasQT._draw_pending
    is_drawing,         \* FigureCanvasQT._is_drawing
    timerActive,        \* _draw_idle_timer is started and has not fired yet
    in_resize_event,    \* FigureCanvasQT._in_resize_event
    width, height,      \* QWidget width/height (logical pixels)
    figH,               \* figure.bbox.height (physical pixels)
    device_pixel_ratio, \* FigureCanvasBase.device_pixel_ratio
    hasRenderer,        \* hasattr(self, 'renderer')
    updateRequested,    \* QWidget.update() was called, paint event outstanding
    stack,              \* suspended handlers, innermost last
    reqs,               \* draw_idle() calls since the pending flag was set
    last,               \* what the most recently completed call did
    mouse,              \* last mouseEventCoords call: position and result
    kbd,                \* last key event: platform, input and what was sent
    tb,                 \* toolbar: rcParams['savefig.directory'], files, last save
    tmr,                \* a TimerQT and its native timer
    nav,                \* toolbar: mode, pan/zoom buttons, history buttons
    tq                  \* a ToolbarQt: its tool buttons and the last call on it

canvasVars == <<draw_pending, is_drawing, timerActive, in_resize_event, width,
                height, figH, device_pixel_ratio, hasRenderer, updateRequested,
                stack, reqs, last>>

vars == <<draw_pending, is_drawing, timerActive, in_resize_event, width,
          height, figH, device_pixel_ratio, hasRenderer, updateRequested,
          stack, reqs, last, mouse, kbd, tb, tmr, nav, tq>>

Min(a, b) == IF a < b THEN a ELSE b

\* ------------------------------------------------- canvas: code operators

\* draw_idle(): p = _draw_pending, d = _is_drawing, t = timer active.
\* Faulty variant: the guard forgets the is-drawing flag.
draw_idle_ignores_drawing(p, d, t) ==
    IF ~p
    THEN [pending |-> TRUE, timer |-> TRUE, started |-> TRUE]
    ELSE [pending |-> p, timer |-> t, started |-> FALSE]

\* Faulty variant: the flag is set but the timer is not started.
draw_idle_no_timer(p, d, t) ==
    IF ~(p \/ d)
    THEN [pending |-> TRUE, timer |-> t, started |-> FALSE]
    ELSE [pending |-> p, timer |-> t, started |-> FALSE]

draw_idle(p, d, t) ==
    IF ~(p \/ d)
    THEN [pending |-> TRUE, timer |-> TRUE, started |-> TRUE]
    ELSE [pending |-> p, timer |-> t, started |-> FALSE]

\* _draw_idle() up to its call of draw(): p = _draw_pending, w/h = widget size.
\* go: draw() is called.  (_idle_draw_cntx only sets the plotting library's
\* own _is_idle_drawing flag, which this backend never reads.)
\* Faulty variant: the pending test is inverted.
_draw_idle_inverted(p, w, h) ==
    IF p THEN [pending |-> p, go |-> FALSE]
    ELSE IF h < 0 \/ w < 0 THEN [pending |-> FALSE, go |-> FALSE]
    ELSE [pending |-> FALSE, go |-> TRUE]

\* Faulty variant: the size test comes before the pending flag is cleared.
_draw_idle_size_first(p, w, h) ==
    IF ~p THEN [pending |-> p, go |-> FALSE]
    ELSE IF h < 0 \/ w < 0 THEN [pending |-> p, go |-> FALSE]
    ELSE [pending |-> FALSE, go |-> TRUE]

_draw_idle(p, w, h) ==
    IF ~p THEN [pending |-> p, go |-> FALSE]
    ELSE IF h < 0 \/ w < 0 THEN [pending |-> FALSE, go |-> FALSE]
    ELSE [pending |-> FALSE, go |-> TRUE]

\* draw(): "if self._is_drawing: return"; TRUE when the render pass is entered.
\* Faulty variant: the test is missing.
draw_enters_always(d) == TRUE

draw_enters(d) == ~d

\* draw() assigns _is_drawing only: p = _draw_pending before the call, the
\* result is _draw_pending after it.
\* Faulty variant: draw() clears the pending flag.
draw_clears_pending(p) == FALSE

draw_keeps_pending(p) == p

\* draw() after super().draw() came back: _setattr_cm restores _is_drawing to
\* the saved value; update() is called only when the render did not raise.
\* Faulty variant: the flag is reset after the render pass, not in a finally.
draw_exit_no_finally(saved, outcome) ==
    [drawing |-> IF outcome = "raise" THEN TRUE ELSE saved,
     update |-> (outcome = "ok"), raised |-> (outcome = "raise")]

draw_exit(saved, outcome) ==
    [drawing |-> saved, update |-> (outcome = "ok"), raised |-> (outcome = "raise")]

\* _draw_idle()'s try/except around draw(): TRUE when the exception leaves
\* _draw_idle.
\* Faulty variant: no try/except.
_draw_idle_no_except(raised) == raised

_draw_idle_propagates(raised) == FALSE

\* What _draw_idle logs (traceback.print_exc) for an exception of draw().
_draw_idle_logs(raised) == raised

\* resizeEvent's first statement, "if self._in_resize_event: return": TRUE
\* when the call returns at once.
\* Faulty variant: the guard is missing.
resizeEvent_no_guard(inre) == FALSE

resizeEvent_returns(inre) == inre

\* What resizeEvent does after the guard, in order, when the dispatch of the
\* resize_event returns (outcome "ok") or raises.
resizeEvent_steps(outcome) ==
    IF outcome = "ok"
    THEN <<"set_size_inches", "QWidget.resizeEvent", "resize_event", "draw_idle">>
    ELSE <<"set_size_inches", "QWidget.resizeEvent", "resize_event">>

\* paintEvent after its _draw_idle() call: hr = hasattr(self, 'renderer'),
\* fail = where the copy to the paint surface raises ("none", "blit",
\* "overlay").  The result is the order of the toolkit calls made.
paintEvent_copy(hr, fail) ==
    IF ~hr THEN << >>
    ELSE IF fail = "blit" THEN <<"painter", "end">>
    ELSE <<"painter", "blit", "overlay", "end">>

\* paintEvent's first statement: TRUE when it calls self._draw_idle() before
\* anything else.
\* Faulty variant: the call is missing.
paintEvent_skips_draw_idle == FALSE

paintEvent_draws_pending == TRUE

\* -------------------------------------------------- canvas: observations

DimsClass(w, h) ==
    IF w < 0 \/ h < 0 THEN "neg" ELSE IF w = 0 \/ h = 0 THEN "zero" ELSE "pos"

\* The record kept of a call: the state it started in and what it did.
\*   drawing0, reqs0, dims0: _is_drawing, request count and size at its start
\*   nested0: it was called from inside another, suspended call
\*   started: draw_idle started the timer;  passes: render passes it made
\*   render: how its render pass ended;  escaped: the exception that left it
\*   logged: traceback printed;  updated: update() called
\*   plog: what a paint event did, in order ("render", then the toolkit
\*         calls);  blitPending: _draw_pending at the blit
\*   pend1: _draw_pending when it returned
\*   cleared: a _draw_idle() that ran inside its render pass cleared
\*         _draw_pending
\* A call records only what its own code reads.
NoCall ==
    [op |-> "init", drawing0 |-> FALSE, reqs0 |-> 0,
     dims0 |-> "pos", nested0 |-> FALSE, started |-> FALSE, passes |-> 0, render |-> "none",
     escaped |-> "none", logged |-> FALSE, updated |-> FALSE, plog |-> << >>,
     blitPending |-> FALSE, pend1 |-> FALSE, cleared |-> FALSE]

\* draw_idle() and draw() read the flags only.
Observe(op) ==
    [NoCall EXCEPT !.op = op, !.drawing0 = is_drawing, !.reqs0 = reqs,
                   !.pend1 = draw_pending]

\* _draw_idle() (timer callback, paint event) reads the widget size too.
ObserveIdle(op) ==
    [Observe(op) EXCEPT !.dims0 = DimsClass(width, height),
                        !.nested0 = (stack # << >>)]

\* resizeEvent reads its own guard flag.
ObserveResize == [NoCall EXCEPT !.op = "resize"]

Top == stack[Len(stack)]
Pop == SubSeq(stack, 1, Len(stack) - 1)
InFrame(ctx) == \E i \in 1..Len(stack) : stack[i].ctx = ctx

\* The suspended render passes learn that the pending flag was cleared under
\* them.
MarkCleared(st, was, is) ==
    IF was /\ ~is
    THEN [i \in 1..Len(st) |->
            IF st[i].ctx = "resize" THEN st[i]
            ELSE [st[i] EXCEPT !.obs.cleared = TRUE]]
    ELSE st

\* how a call into the plotting library ends: it returns, or raises an
\* Exception
Outcomes == {"ok", "raise"}
CopyFailures == {"none", "blit", "overlay"}

\* ------------------------------------------------------- canvas: actions

\* A TimerQT right after __init__: the native timer exists and is stopped
\* (TimerBase.__init__ has set single_shot = False and the interval).
\*   alive: the TimerQT has not been finalised;  deleted: the native timer
\*   has been destroyed;  _single, _interval: the TimerBase attributes;
\*   active, single, interval: the native timer's state;  op: the last hook
\*   called;  onDestroyed: that hook called a method of the destroyed native
\*   timer
NoTimer ==
    [alive |-> TRUE, deleted |-> FALSE, active |-> FALSE, _single |-> FALSE,
     _interval |-> 1, single |-> FALSE, interval |-> 1, op |-> "init",
     onDestroyed |-> FALSE]

\* A NavigationToolbar2QT right after __init__: no mode, nothing checked, an
\* empty navigation stack.
NoNav ==
    [actions |-> {"pan", "zoom", "back", "forward"}, mode |-> "NONE",
     locked |-> FALSE, checked |-> {}, pos |-> -1, len |-> 0, enabled |-> {},
     op |-> "init"]

\* A ToolbarQt right after __init__: no tool items.
\*   disadd: the toolkit binding's signals have a method `disadd`
\*   items: _toolitems, name -> the buttons added under it, each with
\*          checkable, checked, and how often its handler is connected to
\*          `toggled` and to `clicked`
\*   on: the toggle tools that are on (the tool manager's state)
\*   op, name, toggled: the last call and its arguments
\*   triggers: the trigger_tool calls it made;  raised: what it raised
\*   names: the keys of _toolitems
ToolNames == {"zoom", "pan", "home"}

NoTools ==
    [disadd |-> TRUE, names |-> {}, items |-> [n \in ToolNames |-> << >>],
     on |-> {}, op |-> "init", name |-> "", toggled |-> FALSE, triggers |-> 0,
     raised |-> "none"]

\* FigureCanvasQT.__init__ (the window is not shown yet, nothing is drawn).
CanvasInit ==
    /\ draw_pending = FALSE
    /\ is_drawing = FALSE
    /\ timerActive = FALSE
    /\ in_resize_event = FALSE
    /\ width = 1
    /\ height = 1
    /\ hasRenderer = FALSE
    /\ updateRequested = FALSE
    /\ stack = << >>
    /\ reqs = 0
    /\ last = NoCall

\* No mouse event, no key event and no save yet.
NoMouse == [seen |-> FALSE, x |-> 0, y |-> 0, out |-> << <<0, 1>>, <<0, 1>> >>]

NoKey ==
    [platform |-> "linux", name |-> "none", key |-> 0, mask |-> 0,
     mods |-> << >>, keyname |-> "", sent |-> FALSE, text |-> ""]

NoSave ==
    [dir |-> "~", files |-> {}, start |-> "", fname |-> "", outcome |-> "none",
     calls |-> 0,
     dialogs |-> 0, escaped |-> FALSE]

Init ==
    /\ CanvasInit
    /\ device_pixel_ratio = 1
    /\ figH = 1
    /\ mouse = NoMouse
    /\ kbd = NoKey
    /\ tb = NoSave
    /\ tmr = NoTimer
    /\ nav = NoNav
    /\ tq = NoTools

\* A call of draw_idle(): by the plotting library at any time, also from
\* inside a render pass or a resize callback.
DrawIdleCall ==
    /\ LET r == draw_idle(draw_pending, is_drawing, timerActive) IN
        /\ draw_pending' = r.pending
        /\ timerActive' = r.timer
        /\ reqs' = IF r.started THEN 1
                   ELSE IF draw_pending THEN Min(reqs + 1, MaxReqs) ELSE reqs
        /\ last' = [Observe("draw_idle") EXCEPT !.started = r.started,
                                                !.pend1 = r.pending]
    /\ UNCHANGED <<is_drawing, in_resize_event, width, height, figH,
                   device_pixel_ratio, hasRenderer, updateRequested, stack,
                   mouse, kbd, tb, tmr, nav, tq>>

\* A synchronous draw(): returns at once while a render pass is running,
\* otherwise sets _is_drawing and enters super().draw().
DrawCall ==
    /\ IF draw_enters(is_drawing)
       THEN /\ Len(stack) < MaxDepth
            /\ stack' = Append(stack, [ctx |-> "draw", saved |-> is_drawing,
                                       obs |-> Observe("draw")])
            /\ is_drawing' = TRUE
            /\ last' = last
       ELSE /\ last' = Observe("draw")
            /\ UNCHANGED <<stack, is_drawing>>
    /\ UNCHANGED <<draw_pending, timerActive, in_resize_event, width, height,
                   figH, device_pixel_ratio, hasRenderer, updateRequested,
                   reqs, mouse, kbd, tb, tmr, nav, tq>>

\* The single-shot zero-interval timer fires and calls _draw_idle().
TimerFire ==
    /\ timerActive
    /\ timerActive' = FALSE
    /\ LET r == _draw_idle(draw_pending, width, height) IN
        /\ draw_pending' = r.pending
        /\ reqs' = IF r.pending THEN reqs ELSE 0
        /\ IF r.go /\ draw_enters(is_drawing)
           THEN /\ Len(stack) < MaxDepth
                /\ stack' = Append(stack, [ctx |-> "timer", saved |-> is_drawing,
                                           obs |-> ObserveIdle("timer")])
                /\ is_drawing' = TRUE
                /\ last' = last
           ELSE /\ last' = [ObserveIdle("timer") EXCEPT !.pend1 = r.pending]
                /\ stack' = MarkCleared(stack, draw_pending, r.pending)
                /\ UNCHANGED is_drawing
    /\ UNCHANGED <<in_resize_event, width, height, figH, device_pixel_ratio,
                   hasRenderer, updateRequested, mouse, kbd, tb, tmr, nav, tq>>

\* A paint event: _draw_idle() first, then the copy to the paint surface.
\* The toolkit sends no paint event to a widget that is being painted.
PaintEvent ==
    /\ ~InFrame("paint")
    /\ LET r == IF paintEvent_draws_pending
                THEN _draw_idle(draw_pending, width, height)
                ELSE [pending |-> draw_pending, go |-> FALSE]
       IN
        /\ draw_pending' = r.pending
        /\ reqs' = IF r.pending THEN reqs ELSE 0
        /\ IF r.go /\ draw_enters(is_drawing)
           THEN /\ Len(stack) < MaxDepth
                /\ stack' = Append(stack, [ctx |-> "paint", saved |-> is_drawing,
                                           obs |-> ObserveIdle("paint")])
                /\ is_drawing' = TRUE
                /\ last' = last
                /\ updateRequested' = FALSE
           ELSE /\ \E fail \in CopyFailures :
                     last' = [ObserveIdle("paint") EXCEPT
                        !.pend1 = r.pending,
                        !.plog = paintEvent_copy(hasRenderer, fail),
                        !.blitPending = r.pending,
                        !.escaped = IF hasRenderer THEN fail ELSE "none"]
                /\ updateRequested' = FALSE
                /\ stack' = MarkCleared(stack, draw_pending, r.pending)
                /\ UNCHANGED is_drawing
    /\ UNCHANGED <<timerActive, in_resize_event, width, height, figH,
                   device_pixel_ratio, hasRenderer, mouse, kbd, tb, tmr, nav, tq>>

\* super().draw() comes back (or raises) and the suspended call runs to its
\* end: draw() restores _is_drawing and calls update(); _draw_idle catches
\* and logs; paintEvent goes on to copy the buffer.
RenderEnd(outcome) ==
    /\ stack # << >>
    /\ Top.ctx \in {"draw", "timer", "paint"}
    /\ LET f == Top
           x == draw_exit(f.saved, outcome)
           out == _draw_idle_propagates(x.raised)
           done == [f.obs EXCEPT !.passes = 1, !.render = outcome,
                                 !.updated = x.update,
                                 !.pend1 = draw_keeps_pending(draw_pending)]
       IN
        /\ is_drawing' = x.drawing
        /\ draw_pending' = draw_keeps_pending(draw_pending)
        /\ updateRequested' = (updateRequested \/ x.update)
        /\ stack' = Pop
        /\ \E hr \in (IF outcome = "ok" THEN {TRUE} ELSE {hasRenderer, TRUE}) :
            /\ hasRenderer' = hr
            /\ CASE f.ctx = "draw" ->
                      last' = [done EXCEPT
                                 !.escaped = IF x.raised THEN "render" ELSE "none"]
                 [] f.ctx = "timer" ->
                      last' = [done EXCEPT
                                 !.escaped = IF out THEN "render" ELSE "none",
                                 !.logged = _draw_idle_logs(x.raised) /\ ~out]
                 [] f.ctx = "paint" ->
                      IF out
                      THEN last' = [done EXCEPT !.escaped = "render"]
                      ELSE \E fail \in CopyFailures :
                             last' = [done EXCEPT
                                !.logged = _draw_idle_logs(x.raised),
                                !.plog = <<"render">> \o paintEvent_copy(hr, fail),
                                !.blitPending = draw_keeps_pending(draw_pending),
                                !.escaped = IF hr THEN fail ELSE "none"]
    /\ reqs' = IF draw_keeps_pending(draw_pending) THEN reqs ELSE 0
    /\ UNCHANGED <<timerActive, in_resize_event, width, height,
                   figH, device_pixel_ratio, mouse, kbd, tb, tmr, nav, tq>>

\* A resize event of size w x h, sent by the toolkit or made by
\* _update_pixel_ratio: the guard against re-entry, the new figure size, then
\* the toolkit's own handler and the resize_event callbacks.
ResizeEvent(w, h) ==
    /\ width' = w
    /\ height' = h
    /\ IF resizeEvent_returns(in_resize_event)
       THEN /\ last' = ObserveResize
            /\ UNCHANGED <<in_resize_event, figH, stack>>
       ELSE /\ Len(stack) < MaxDepth
            /\ in_resize_event' = TRUE
            /\ figH' = h * device_pixel_ratio
            /\ stack' = Append(stack, [ctx |-> "resize", saved |-> is_drawing,
                                       obs |-> ObserveResize])
            /\ last' = last
    /\ UNCHANGED <<draw_pending, is_drawing, timerActive, device_pixel_ratio,
                   hasRenderer, updateRequested, reqs, mouse, kbd, tb, tmr, nav, tq>>

\* The resize_event callbacks come back: draw_idle() unless they raised, and
\* the guard flag is reset in either case.
ResizeEnd(outcome) ==
    /\ stack # << >>
    /\ Top.ctx = "resize"
    /\ LET r == IF outcome = "ok"
                THEN draw_idle(draw_pending, is_drawing, timerActive)
                ELSE [pending |-> draw_pending, timer |-> timerActive,
                      started |-> FALSE]
       IN
        /\ draw_pending' = r.pending
        /\ timerActive' = r.timer
        /\ reqs' = IF r.started THEN 1
                   ELSE IF draw_pending /\ outcome = "ok"
                        THEN Min(reqs + 1, MaxReqs) ELSE reqs
        /\ last' = [Top.obs EXCEPT
                      !.started = r.started,
                      !.plog = resizeEvent_steps(outcome),
                      !.pend1 = r.pending,
                      !.escaped = IF outcome = "ok" THEN "none" ELSE "dispatch"]
    /\ in_resize_event' = FALSE
    /\ stack' = Pop
    /\ UNCHANGED <<is_drawing, width, height, figH, device_pixel_ratio,
                   hasRenderer, updateRequested, mouse, kbd, tb, tmr, nav, tq>>

Next ==
    \/ DrawIdleCall
    \/ DrawCall
    \/ TimerFire
    \/ PaintEvent
    \/ \E o \in Outcomes : RenderEnd(o)
    \/ \E w \in Dims, h \in Dims : ResizeEvent(w, h)
    \/ \E o \in Outcomes : ResizeEnd(o)

Spec == Init /\ [][Next]_vars

\* ------------------------------------------------ canvas: the claims

\* C1 (as stated): starting with no draw pending and no render in progress,
\* two or more draw_idle() calls before the timer callback fires give exactly
\* one render pass when the callback runs (the callback is run by the event
\* loop, not from inside another handler).
C1_Original ==
    (last.op = "timer" /\ ~last.nested0 /\ ~last.drawing0 /\ last.reqs0 >= 2)
        => last.passes = 1

\* C1 (amended): the same, provided neither width nor height is negative;
\* with a negative width or height the callback makes no render pass.
C1_OneRenderPass ==
    (last.op = "timer" /\ ~last.nested0 /\ ~last.drawing0 /\ last.reqs0 >= 2)
        => last.passes = (IF last.dims0 = "neg" THEN 0 ELSE 1)

C1_Witness ==
    /\ last.op = "timer" /\ ~last.nested0 /\ ~last.drawing0
    /\ last.reqs0 >= 2 /\ last.dims0 = "pos" /\ last.passes = 1 /\ last.render = "ok"

\* C2: draw_idle() sets the pending flag and starts the timer only when
\* neither flag is set; when either is set it changes no flag and starts
\* nothing.
C2_DrawIdleEffect ==
    [][DrawIdleCall =>
        IF ~draw_pending /\ ~is_drawing
        THEN /\ draw_pending' /\ timerActive' /\ last'.started
             /\ is_drawing' = is_drawing
        ELSE /\ draw_pending' = draw_pending /\ is_drawing' = is_drawing
             /\ timerActive' = timerActive /\ ~last'.started]_vars

C2_Witness ==
    /\ last.op = "draw_idle" /\ last.started /\ last.reqs0 = 0
    /\ ~last.drawing0 /\ draw_pending /\ timerActive

\* C3: an exception of the render pass made by the timer callback or by a
\* paint event is caught and logged, does not leave _draw_idle or paintEvent,
\* and the pending flag is clear when the call returns; the timer callback
\* returns normally.
C3_RenderErrorCaught ==
    (last.op \in {"timer", "paint"} /\ last.render = "raise")
        => /\ last.escaped # "render"
           /\ last.logged
           /\ ~last.pend1
           /\ (last.op = "timer" => last.escaped = "none")

C3_Witness ==
    /\ last.op = "paint" /\ last.render = "raise" /\ last.logged
    /\ last.escaped = "none" /\ ~draw_pending

\* C4 (as stated): the timer callback running with a redraw pending and a
\* width or height <= 0 clears the pending flag and attempts no render pass.
C4_Original ==
    (last.op = "timer" /\ last.reqs0 > 0 /\ last.dims0 \in {"neg", "zero"})
        => (~last.pend1 /\ last.passes = 0)

\* C4 (amended): the same for a width or height < 0 (a width or height of
\* exactly 0 is rendered).
C4_NegativeSizeSkipped ==
    (last.op = "timer" /\ last.reqs0 > 0 /\ last.dims0 = "neg")
        => (~last.pend1 /\ last.passes = 0)

C4_Witness ==
    /\ last.op = "timer" /\ last.reqs0 > 0 /\ last.dims0 = "neg"
    /\ ~last.drawing0 /\ ~draw_pending /\ last.passes = 0

RenderFrames == {i \in 1..Len(stack) : stack[i].ctx \in {"draw", "timer", "paint"}}

ResizeFrames == {i \in 1..Len(stack) : stack[i].ctx = "resize"}

\* C15: render passes never nest: a draw() made while _is_drawing is set
\* returns without a render pass and without calling update(); _is_drawing
\* is set exactly while a render pass is running, so it is false again when
\* the outermost draw() has finished, whether it returned or raised.
C15_NoNestedRender ==
    /\ [](/\ Cardinality(RenderFrames) <= 1
          /\ is_drawing <=> RenderFrames # {}
          /\ (last.op = "draw" /\ last.drawing0) =>
                (last.passes = 0 /\ last.render = "none" /\ ~last.updated))
    /\ [][(DrawCall /\ is_drawing) =>
            UNCHANGED <<stack, is_drawing, updateRequested, hasRenderer,
                        draw_pending, timerActive>>]_vars
    /\ [][(\E o \in Outcomes : RenderEnd(o)) => ~is_drawing']_vars

C15_Witness ==
    /\ last.op = "draw" /\ last.drawing0 /\ last.passes = 0
    /\ is_drawing /\ Len(stack) = 1 /\ stack[1].ctx = "draw"

\* C16: a resizeEvent arriving while another one is executing returns at
\* once with no effect; the guard flag is set exactly while a resizeEvent is
\* executing, so it is false again when the outer call has returned or
\* raised; the outer call has set the figure size, and not yet asked for the
\* idle redraw, when it dispatches the resize event, and asks for the redraw
\* after the dispatch returned.
C16_ResizeGuard ==
    /\ [](/\ Cardinality(ResizeFrames) <= 1
          /\ in_resize_event <=> ResizeFrames # {}
          /\ (last.op = "resize" /\ last.started) =>
                last.plog = <<"set_size_inches", "QWidget.resizeEvent",
                              "resize_event", "draw_idle">>)
    /\ [][(\E w \in Dims, h \in Dims : ResizeEvent(w, h)) =>
            IF in_resize_event
            THEN UNCHANGED <<in_resize_event, figH, stack, draw_pending,
                             timerActive, is_drawing, updateRequested, reqs,
                             hasRenderer>>
            ELSE /\ in_resize_event'
                 /\ figH' = height' * device_pixel_ratio
                 /\ stack' = Append(stack, stack'[Len(stack')])
                 /\ stack'[Len(stack')].ctx = "resize"
                 /\ UNCHANGED <<draw_pending, timerActive>>]_vars
    /\ [][(\E o \in Outcomes : ResizeEnd(o)) =>
            /\ ~in_resize_event'
            /\ last'.escaped = "none" =>
                 (draw_pending' \/ is_drawing) /\ (last'.started => timerActive')
            /\ last'.escaped # "none" =>
                 UNCHANGED <<draw_pending, timerActive>>]_vars

C16_Witness ==
    /\ last.op = "resize" /\ last.started /\ ~in_resize_event /\ draw_pending
    /\ last.plog = <<"set_size_inches", "QWidget.resizeEvent", "resize_event",
                     "draw_idle">>
    /\ figH = height * device_pixel_ratio /\ height = 0

\* C17: in every reachable state, a set pending flag has its zero-delay
\* callback scheduled, and _is_drawing is false whenever no handler is
\* executing; so a draw_idle() made between handlers is refused only while a
\* redraw is pending, whose callback is scheduled.
C17_PendingHasTimer ==
    /\ draw_pending => timerActive
    /\ stack = << >> => ~is_drawing
    /\ stack = << >> =>
         (draw_pending \/ draw_idle(draw_pending, is_drawing, timerActive).started)

C17_Witness ==
    /\ last.op = "draw" /\ last.render = "raise" /\ stack = << >>
    /\ ~is_drawing /\ draw_pending /\ timerActive

\* The event loop runs the callback of a started timer: the timer is
\* single-shot with interval 0, so its timeout is delivered once the loop
\* gets to it.
LiveSpec ==
    /\ Spec
    /\ WF_vars(TimerFire)

\* the canvas has the dimensions _draw_idle renders for
ValidSize == width >= 0 /\ height >= 0

C19_Original ==
    /\ [][(DrawCall \/ (\E o \in Outcomes : RenderEnd(o) /\ Top.ctx = "draw"))
            => draw_pending' = draw_pending]_vars
    /\ []((last.op = "draw" /\ last.reqs0 > 0 /\ last.passes = 1) => last.pend1)
    /\ [][(/\ TimerFire \/ PaintEvent
           /\ stack = << >> /\ draw_pending
           /\ last.op = "draw" /\ last.passes = 1)
            => (Len(stack') = 1 /\ ~draw_pending')]_vars

\* C19 (amended): draw() itself never changes the pending flag; a redraw
\* requested before the draw() is still pending after it unless a timer
\* callback or paint event that ran inside the render pass cleared it; when
\* it is still pending, the timer callback or paint event that runs next
\* makes a further render pass if neither width nor height is negative, and
\* none if one is.
C19_DrawKeepsPending ==
    /\ [][(DrawCall \/ (\E o \in Outcomes : RenderEnd(o) /\ Top.ctx = "draw"))
            => draw_pending' = draw_pending]_vars
    /\ []((last.op = "draw" /\ last.reqs0 > 0 /\ last.passes = 1)
            => (last.pend1 <=> ~last.cleared))
    /\ [][(/\ TimerFire \/ PaintEvent
           /\ stack = << >> /\ draw_pending
           /\ last.op = "draw" /\ last.passes = 1)
            => (/\ ~draw_pending'
                /\ Len(stack') = (IF ValidSize THEN 1 ELSE 0))]_vars

C19_Witness ==
    /\ last.op = "draw" /\ last.reqs0 > 0 /\ last.passes = 1 /\ last.pend1
    /\ ~last.cleared /\ stack = << >> /\ draw_pending /\ timerActive


\* ------------------------------------------------ mouse coordinates

\* Python's true division and float arithmetic, kept exact: a number is a
\* fraction <<numerator, denominator>> in lowest terms, denominator > 0.
RECURSIVE Gcd(_, _)
Gcd(a, b) == IF b = 0 THEN a ELSE Gcd(b, a % b)

Abs(a) == IF a < 0 THEN -a ELSE a

Frac(n, d) ==
    LET g == Gcd(Abs(n), Abs(d))
        sg == IF d < 0 THEN -1 ELSE 1
    IN  IF n = 0 THEN <<0, 1>> ELSE <<sg * (n \div g), sg * (d \div g)>>

FracSub(q, k) == Frac(q[1] - k * q[2], q[2])
FracMul(q, k) == Frac(q[1] * k, q[2])

\* mouseEventCoords(pos) for a position (px, py), a figure height fh and a
\* device pixel ratio r: x = pos.x; y = fh / r - pos.y; (x * r, y * r).
\* Faulty variant: the y coordinate is scaled but not flipped.
mouseEventCoords_no_flip(px, py, fh, r) ==
    <<FracMul(Frac(px, 1), r), FracMul(Frac(py, 1), r)>>

mouseEventCoords(px, py, fh, r) ==
    LET x == Frac(px, 1)
        y == FracSub(Frac(fh, r), py)
    IN  <<FracMul(x, r), FracMul(y, r)>>

Positions == (-1)..MaxPos

\* The inputs: any figure height and any device pixel ratio >= 1
\* (_update_pixel_ratio falls back to 1 when the toolkit reports 0).
MouseInit ==
    /\ CanvasInit
    /\ device_pixel_ratio \in 1..MaxRatio
    /\ figH \in 0..MaxFigH
    /\ mouse = NoMouse
    /\ kbd = NoKey
    /\ tb = NoSave
    /\ tmr = NoTimer
    /\ nav = NoNav
    /\ tq = NoTools

\* mouseMoveEvent at the native position (px, py): the coordinates handed to
\* the motion_notify_event.
mouseMoveEvent(px, py) ==
    /\ mouse' = [seen |-> TRUE, x |-> px, y |-> py,
                 out |-> mouseEventCoords(px, py, figH, device_pixel_ratio)]
    /\ UNCHANGED <<canvasVars, kbd, tb, tmr, nav, tq>>

MouseNext == \E px \in Positions, py \in Positions : mouseMoveEvent(px, py)

MouseSpec == MouseInit /\ [][MouseNext]_vars

\* C6: for every native position P, figure height H and device pixel ratio
\* r, mouseEventCoords gives x = P.x * r and y = (H / r - P.y) * r, which is
\* the position in physical pixels counted from the bottom left: y = H - P.y*r.
C6_MouseCoords ==
    LET r == device_pixel_ratio IN
    mouse.seen =>
    /\ mouse.out[1] = <<mouse.x * r, 1>>
    /\ mouse.out[2] = FracMul(FracSub(Frac(figH, r), mouse.y), r)
    /\ mouse.out[2] = <<figH - mouse.y * r, 1>>

C6_Witness ==
    /\ mouse.seen /\ device_pixel_ratio = 2 /\ figH = 3 /\ mouse.x = 1 /\ mouse.y = 2
    /\ mouse.out = << <<2, 1>>, <<-1, 1>> >>

\* ------------------------------------------------------- key events

\* The toolkit's key codes (QtCore.Qt.Key) of the keys named by SPECIAL_KEYS,
\* of three keys the table does not name, and of some character keys.
QtKey ==
    [Key_Escape |-> 16777216, Key_Tab |-> 16777217, Key_Backspace |-> 16777219,
     Key_Return |-> 16777220, Key_Enter |-> 16777221, Key_Insert |-> 16777222,
     Key_Delete |-> 16777223, Key_Pause |-> 16777224, Key_SysReq |-> 16777226,
     Key_Clear |-> 16777227, Key_Home |-> 16777232, Key_End |-> 16777233,
     Key_Left |-> 16777234, Key_Up |-> 16777235, Key_Right |-> 16777236,
     Key_Down |-> 16777237, Key_PageUp |-> 16777238, Key_PageDown |-> 16777239,
     Key_Shift |-> 16777248, Key_Control |-> 16777249, Key_Meta |-> 16777250,
     Key_Alt |-> 16777251, Key_CapsLock |-> 16777252,
     Key_F1 |-> 16777264, Key_F2 |-> 16777265, Key_F3 |-> 16777266,
     Key_F4 |-> 16777267, Key_F5 |-> 16777268, Key_F6 |-> 16777269,
     Key_F7 |-> 16777270, Key_F8 |-> 16777271, Key_F9 |-> 16777272,
     Key_F10 |-> 16777273, Key_F11 |-> 16777274, Key_F12 |-> 16777275,
     Key_Super_L |-> 16777299, Key_Super_R |-> 16777300,
     Key_Print |-> 16777225, Key_MediaPlay |-> 16777344,
     Key_Space |-> 32, Key_1 |-> 49, Key_A |-> 65, Key_Z |-> 90]

\* The toolkit's modifier bits (QtCore.Qt.KeyboardModifier).
QtModifier ==
    [ShiftModifier |-> 33554432, ControlModifier |-> 67108864,
     AltModifier |-> 134217728, MetaModifier |-> 268435456,
     KeypadModifier |-> 536870912]

\* sys.maxunicode
MaxUnicode == 1114111

Platforms == {"linux", "darwin"}

\* The (key, name) pairs SPECIAL_KEYS is built from, in source order.
SpecialKeyItems(platform) ==
    << <<"Key_Escape", "escape">>, <<"Key_Tab", "tab">>,
       <<"Key_Backspace", "backspace">>, <<"Key_Return", "enter">>,
       <<"Key_Enter", "enter">>, <<"Key_Insert", "insert">>,
       <<"Key_Delete", "delete">>, <<"Key_Pause", "pause">>,
       <<"Key_SysReq", "sysreq">>, <<"Key_Clear", "clear">>,
       <<"Key_Home", "home">>, <<"Key_End", "end">>, <<"Key_Left", "left">>,
       <<"Key_Up", "up">>, <<"Key_Right", "right">>, <<"Key_Down", "down">>,
       <<"Key_PageUp", "pageup">>, <<"Key_PageDown", "pagedown">>,
       <<"Key_Shift", "shift">>,
       <<"Key_Control", IF platform # "darwin" THEN "control" ELSE "cmd">>,
       <<"Key_Meta", IF platform # "darwin" THEN "meta" ELSE "control">>,
       <<"Key_Alt", "alt">>, <<"Key_CapsLock", "caps_lock">>,
       <<"Key_F1", "f1">>, <<"Key_F2", "f2">>, <<"Key_F3", "f3">>,
       <<"Key_F4", "f4">>, <<"Key_F5", "f5">>, <<"Key_F6", "f6">>,
       <<"Key_F7", "f7">>, <<"Key_F8", "f8">>, <<"Key_F9", "f9">>,
       <<"Key_F10", "f10">>, <<"Key_F10", "f11">>, <<"Key_F12", "f12">>,
       <<"Key_Super_L", "super">>, <<"Key_Super_R", "super">> >>

\* SPECIAL_KEYS: the dict comprehension over the pairs; of two pairs with the
\* same key the later one stays.
SPECIAL_KEYS ==
    [platform \in Platforms |->
        LET items == SpecialKeyItems(platform)
            at(c) == {i \in 1..Len(items) : QtKey[items[i][1]] = c}
            latest(c) == CHOOSE i \in at(c) : \A j \in at(c) : j <= i
        IN  [c \in {QtKey[items[i][1]] : i \in 1..Len(items)} |->
                items[latest(c)][2]]]

\* _MODIFIER_KEYS: (modifier bit, key code) in the order reported.
_MODIFIER_KEYS ==
    << <<QtModifier.ControlModifier, QtKey.Key_Control>>,
       <<QtModifier.AltModifier, QtKey.Key_Alt>>,
       <<QtModifier.ShiftModifier, QtKey.Key_Shift>>,
       <<QtModifier.MetaModifier, QtKey.Key_Meta>> >>

\* modifiers & mask, for a mask of one bit
BitSet(modifiers, mask) == (modifiers \div mask) % 2 = 1

\* str.replace('control', 'ctrl') on the names of the modifier keys
ReplaceControl(name) == IF name = "control" THEN "ctrl" ELSE name

\* chr() and str.lower() on the character keys of QtKey and on the last
\* code point
Chr ==
    (32 :> " ") @@ (49 :> "1") @@ (65 :> "A") @@ (90 :> "Z")
        @@ (MaxUnicode :> "U+10FFFF")

Lower(c) == IF c = "A" THEN "a" ELSE IF c = "Z" THEN "z" ELSE c

RECURSIVE Join(_)
Join(parts) ==
    IF Len(parts) = 0 THEN ""
    ELSE IF Len(parts) = 1 THEN parts[1]
    ELSE parts[1] \o "+" \o Join(Tail(parts))

RECURSIVE RemoveFirst(_, _)
RemoveFirst(seq, e) ==
    IF Len(seq) = 0 THEN seq
    ELSE IF Head(seq) = e THEN Tail(seq)
    ELSE <<Head(seq)>> \o RemoveFirst(Tail(seq), e)

Contains(seq, e) == \E i \in 1..Len(seq) : seq[i] = e

\* _mpl_modifiers(modifiers, exclude=...): the names of the modifier keys
\* whose bit is set, but not of the key `exclude`.
\* Faulty variant: the pressed key's own modifier is not left out.
RECURSIVE ModifierNames(_, _, _, _)
ModifierNames(platform, pairs, modifiers, exclude) ==
    IF Len(pairs) = 0 THEN << >>
    ELSE LET mask == Head(pairs)[1]
             key == Head(pairs)[2]
             rest == ModifierNames(platform, Tail(pairs), modifiers, exclude)
         IN  IF exclude # key /\ BitSet(modifiers, mask)
             THEN <<ReplaceControl(SPECIAL_KEYS[platform][key])>> \o rest
             ELSE rest

_mpl_modifiers_keeps_own(platform, modifiers, exclude) ==
    ModifierNames(platform, _MODIFIER_KEYS, modifiers, -1)

_mpl_modifiers(platform, modifiers, exclude) ==
    ModifierNames(platform, _MODIFIER_KEYS, modifiers, exclude)

\* _get_key(event): None (ok = FALSE) or the modifier names, the key name and
\* the string joined from them.
NoneKey == [ok |-> FALSE, mods |-> << >>, keyname |-> "", text |-> ""]

KeyString(mods, keyname) ==
    [ok |-> TRUE, mods |-> mods, keyname |-> keyname,
     text |-> Join(mods \o <<keyname>>)]

\* Faulty variant: shift is not taken out of the modifiers of a character key.
_get_key_keeps_shift(platform, event_key, modifiers) ==
    LET mods == _mpl_modifiers(platform, modifiers, event_key) IN
    IF event_key \in DOMAIN SPECIAL_KEYS[platform]
    THEN KeyString(mods, SPECIAL_KEYS[platform][event_key])
    ELSE IF event_key > MaxUnicode THEN NoneKey
    ELSE IF Contains(mods, "shift")
         THEN KeyString(mods, Chr[event_key])
         ELSE KeyString(mods, Lower(Chr[event_key]))

\* Faulty variant: codes above the character range are not skipped.
_get_key_no_range(platform, event_key, modifiers) ==
    LET mods == _mpl_modifiers(platform, modifiers, event_key) IN
    IF event_key \in DOMAIN SPECIAL_KEYS[platform]
    THEN KeyString(mods, SPECIAL_KEYS[platform][event_key])
    ELSE KeyString(mods, "?")

\* Faulty variant: shift is taken out of the modifiers of every key.
_get_key_drops_shift(platform, event_key, modifiers) ==
    LET mods == _mpl_modifiers(platform, modifiers, event_key) IN
    IF event_key \in DOMAIN SPECIAL_KEYS[platform]
    THEN KeyString(RemoveFirst(mods, "shift"), SPECIAL_KEYS[platform][event_key])
    ELSE IF event_key > MaxUnicode THEN NoneKey
    ELSE IF Contains(mods, "shift")
         THEN KeyString(RemoveFirst(mods, "shift"), Chr[event_key])
         ELSE KeyString(mods, Lower(Chr[event_key]))

_get_key(platform, event_key, modifiers) ==
    LET mods == _mpl_modifiers(platform, modifiers, event_key) IN
    IF event_key \in DOMAIN SPECIAL_KEYS[platform]
    THEN KeyString(mods, SPECIAL_KEYS[platform][event_key])
    ELSE IF event_key > MaxUnicode THEN NoneKey
    ELSE IF Contains(mods, "shift")
         THEN KeyString(RemoveFirst(mods, "shift"), Chr[event_key])
         ELSE KeyString(mods, Lower(Chr[event_key]))

\* The key codes delivered: every key of QtKey, the last code point and the
\* first code above it.
EventKeys ==
    {QtKey[k] : k \in DOMAIN QtKey} \cup {MaxUnicode, MaxUnicode + 1}

ModifierBits ==
    {QtModifier.ShiftModifier, QtModifier.ControlModifier,
     QtModifier.AltModifier, QtModifier.MetaModifier,
     QtModifier.KeypadModifier}

RECURSIVE SumOf(_)
SumOf(S) == IF S = {} THEN 0
            ELSE LET e == CHOOSE e \in S : TRUE IN e + SumOf(S \ {e})

\* every state of QApplication.keyboardModifiers()
ModifierMasks == {SumOf(S) : S \in SUBSET ModifierBits}

\* The inputs: the platform, the key of the event to come and the state of
\* the modifier keys when it comes.
KeyInit ==
    /\ CanvasInit
    /\ device_pixel_ratio = 1
    /\ figH = 1
    /\ mouse = NoMouse
    /\ \E pf \in Platforms, k \in EventKeys, m \in ModifierMasks :
          kbd = [NoKey EXCEPT !.platform = pf, !.key = k, !.mask = m]
    /\ tb = NoSave
    /\ tmr = NoTimer
    /\ nav = NoNav
    /\ tq = NoTools

\* keyPressEvent / keyReleaseEvent for the key kbd.key with the modifier
\* state kbd.mask: the KeyEvent is made and processed unless _get_key
\* returned None.
KeyHandler(name) ==
    /\ kbd.name = "none"
    /\ LET key == _get_key(kbd.platform, kbd.key, kbd.mask) IN
        kbd' = [kbd EXCEPT !.name = name, !.mods = key.mods,
                           !.keyname = key.keyname, !.sent = key.ok,
                           !.text = key.text]
    /\ UNCHANGED <<canvasVars, mouse, tb, tmr, nav, tq>>

keyPressEvent == KeyHandler("key_press_event")

keyReleaseEvent == KeyHandler("key_release_event")

KeyNext == keyPressEvent \/ keyReleaseEvent

KeySpec == KeyInit /\ [][KeyNext]_vars

\* The names of the Control, Alt, Shift and Meta bits, in that order: ctrl,
\* alt, shift, meta; on darwin the toolkit swaps Control and Meta, which the
\* code names cmd and ctrl.
C7_Names ==
    IF kbd.platform = "darwin" THEN <<"cmd", "alt", "shift", "ctrl">>
    ELSE <<"ctrl", "alt", "shift", "meta">>

C7_Pick(bit, own, name) ==
    IF BitSet(kbd.mask, bit) /\ kbd.key # own THEN <<name>> ELSE << >>

C7_Expected ==
    C7_Pick(QtModifier.ControlModifier, QtKey.Key_Control, C7_Names[1])
    \o C7_Pick(QtModifier.AltModifier, QtKey.Key_Alt, C7_Names[2])
    \o C7_Pick(QtModifier.ShiftModifier, QtKey.Key_Shift, C7_Names[3])
    \o C7_Pick(QtModifier.MetaModifier, QtKey.Key_Meta, C7_Names[4])

\* The active modifiers other than shift, in the same order.
C8_Others ==
    C7_Pick(QtModifier.ControlModifier, QtKey.Key_Control, C7_Names[1])
    \o C7_Pick(QtModifier.AltModifier, QtKey.Key_Alt, C7_Names[2])
    \o C7_Pick(QtModifier.MetaModifier, QtKey.Key_Meta, C7_Names[4])

\* C7: for every modifier mask and event key, _mpl_modifiers gives exactly
\* the modifiers whose bit is set, in the fixed order ctrl, alt, shift, meta
\* (the order of the Control, Alt, Shift and Meta bits), without the modifier
\* whose own key is the key of the event; the key string is the modifiers and
\* the key name joined with "+", never "ctrl+control".
C7_Modifiers ==
    kbd.name # "none" =>
        /\ _mpl_modifiers(kbd.platform, kbd.mask, kbd.key) = C7_Expected
        /\ kbd.sent =>
            /\ kbd.mods \in {C7_Expected, RemoveFirst(C7_Expected, "shift")}
            /\ kbd.text = Join(kbd.mods \o <<kbd.keyname>>)
            /\ kbd.text # "ctrl+control"

C7_Witness ==
    /\ kbd.name = "key_press_event" /\ kbd.platform = "linux"
    /\ kbd.key = QtKey.Key_Control
    /\ kbd.mask = QtModifier.ControlModifier + QtModifier.ShiftModifier
                    + QtModifier.MetaModifier
    /\ kbd.text = "shift+meta+control"

\* C8: for a key code outside the special-key table and within the character
\* range: with shift active the key name is the character as delivered and
\* "shift" is not among the modifiers of the key string; without shift it is
\* the lowercase character; the other active modifiers are kept.
C8_CharacterKeys ==
    (/\ kbd.name # "none"
     /\ kbd.key \notin DOMAIN SPECIAL_KEYS[kbd.platform]
     /\ kbd.key <= MaxUnicode)
        => /\ kbd.sent
           /\ IF BitSet(kbd.mask, QtModifier.ShiftModifier)
              THEN kbd.keyname = Chr[kbd.key] /\ ~Contains(kbd.mods, "shift")
              ELSE kbd.keyname = Lower(Chr[kbd.key])
           /\ kbd.mods = C8_Others
           /\ kbd.text = Join(C8_Others \o <<kbd.keyname>>)

C8_Witness ==
    /\ kbd.name = "key_press_event" /\ kbd.key = QtKey.Key_A
    /\ kbd.mask = QtModifier.ShiftModifier + QtModifier.AltModifier
    /\ kbd.sent /\ kbd.text = "alt+A"

\* C9: a key press or release whose code is outside the special-key table
\* and above the character range sends no key event, whatever the modifiers.
C9_NoEventAboveRange ==
    (/\ kbd.name # "none"
     /\ kbd.key \notin DOMAIN SPECIAL_KEYS[kbd.platform]
     /\ kbd.key > MaxUnicode)
        => (~kbd.sent /\ kbd.text = "")

C9_Witness ==
    /\ kbd.name = "key_release_event" /\ kbd.key = QtKey.Key_MediaPlay
    /\ kbd.mask = QtModifier.ControlModifier /\ ~kbd.sent

\* C14: for a key code in the special-key table the key name is the table's
\* name and every active modifier other than the key's own, shift included,
\* is kept in the key string (shift with Return gives "shift+enter"); shift
\* is missing from the key string of a key pressed with shift only for a
\* character key.
C14_SpecialKeys ==
    kbd.name # "none" =>
        /\ kbd.key \in DOMAIN SPECIAL_KEYS[kbd.platform] =>
              /\ kbd.sent
              /\ kbd.keyname = SPECIAL_KEYS[kbd.platform][kbd.key]
              /\ kbd.mods = C7_Expected
              /\ kbd.text = Join(C7_Expected \o <<kbd.keyname>>)
              /\ (BitSet(kbd.mask, QtModifier.ShiftModifier)
                    /\ kbd.key # QtKey.Key_Shift) => Contains(kbd.mods, "shift")
        /\ (kbd.key = QtKey.Key_Return /\ kbd.mask = QtModifier.ShiftModifier)
              => kbd.text = "shift+enter"
        /\ (/\ kbd.sent
            /\ BitSet(kbd.mask, QtModifier.ShiftModifier)
            /\ kbd.key # QtKey.Key_Shift
            /\ ~Contains(kbd.mods, "shift"))
              => (kbd.key \notin DOMAIN SPECIAL_KEYS[kbd.platform]
                  /\ kbd.key <= MaxUnicode /\ kbd.keyname = Chr[kbd.key])

C14_Witness ==
    /\ kbd.name = "key_press_event" /\ kbd.key = QtKey.Key_Return
    /\ kbd.mask = QtModifier.ShiftModifier + QtModifier.ControlModifier
    /\ kbd.platform = "linux" /\ kbd.text = "ctrl+shift+enter"

\* C20: each of the function keys F1 to F12 pressed with no modifier sends a
\* key event whose key string is its own name, "f1" to "f12"; no two of them
\* send the same key string.
C20_FunctionKeyNames ==
    << <<QtKey.Key_F1, "f1">>, <<QtKey.Key_F2, "f2">>, <<QtKey.Key_F3, "f3">>,
       <<QtKey.Key_F4, "f4">>, <<QtKey.Key_F5, "f5">>, <<QtKey.Key_F6, "f6">>,
       <<QtKey.Key_F7, "f7">>, <<QtKey.Key_F8, "f8">>, <<QtKey.Key_F9, "f9">>,
       <<QtKey.Key_F10, "f10">>, <<QtKey.Key_F11, "f11">>,
       <<QtKey.Key_F12, "f12">> >>

C20_FunctionKeys ==
    (kbd.name # "none" /\ kbd.mask = 0) =>
        \A i \in 1..Len(C20_FunctionKeyNames) :
            /\ kbd.key = C20_FunctionKeyNames[i][1] =>
                  (kbd.sent /\ kbd.text = C20_FunctionKeyNames[i][2])
            /\ (kbd.sent /\ kbd.text = C20_FunctionKeyNames[i][2]) =>
                  kbd.key = C20_FunctionKeyNames[i][1]

\* ------------------------------------------------ toolbar: save_figure

\* os.path.expanduser and os.path.dirname on the paths used
ExpandUser(path) == IF path = "~" THEN "/home/user" ELSE path


DirName(path) ==
    IF path \in {"/a/fig.png", "/a/plot.svg"} THEN "/a"
    ELSE IF path = "/b/fig.pdf" THEN "/b"
    ELSE ""

\* what the file dialog returns: "" when the user cancels
FileNames == {"", "/a/fig.png", "/a/plot.svg", "/b/fig.pdf", "fig.svg"}

\* save_figure(): t = the toolbar state, fname = the dialog's answer,
\* outcome = how figure.savefig(fname) ends if it is called.  start is the
\* directory the dialog opens in; files are the files written.
\* Faulty variant: no try/except around savefig.
save_figure_no_except(t, fname, outcome) ==
    IF fname = ""
    THEN [t EXCEPT !.start = ExpandUser(t.dir), !.fname = fname,
                   !.outcome = "none", !.calls = 0, !.dialogs = 0,
                   !.escaped = FALSE]
    ELSE [dir |-> IF ExpandUser(t.dir) # "" THEN DirName(fname) ELSE t.dir,
          files |-> IF outcome = "ok" THEN t.files \cup {fname} ELSE t.files,
          start |-> ExpandUser(t.dir),
          fname |-> fname, outcome |-> outcome, calls |-> 1,
          dialogs |-> 0, escaped |-> (outcome = "raise")]

save_figure(t, fname, outcome) ==
    IF fname = ""
    THEN [t EXCEPT !.start = ExpandUser(t.dir), !.fname = fname,
                   !.outcome = "none", !.calls = 0, !.dialogs = 0,
                   !.escaped = FALSE]
    ELSE [dir |-> IF ExpandUser(t.dir) # "" THEN DirName(fname) ELSE t.dir,
          files |-> IF outcome = "ok" THEN t.files \cup {fname} ELSE t.files,
          start |-> ExpandUser(t.dir),
          fname |-> fname, outcome |-> outcome, calls |-> 1,
          dialogs |-> IF outcome = "raise" THEN 1 ELSE 0,
          escaped |-> FALSE]

\* The save button: the user picks a name (or cancels), savefig succeeds or
\* raises.
SaveFigure(fname, outcome) ==
    /\ tb' = save_figure(tb, fname, outcome)
    /\ UNCHANGED <<canvasVars, mouse, kbd, tmr, nav, tq>>

ToolbarNext == \E f \in FileNames, o \in Outcomes : SaveFigure(f, o)

\* rcParams['savefig.directory'] is the user's configuration: the home
\* directory (the default), the working directory ("") or a directory.
SaveDirs == {"~", "", "/data"}

ToolbarInit ==
    /\ CanvasInit
    /\ device_pixel_ratio = 1
    /\ figH = 1
    /\ mouse = NoMouse
    /\ kbd = NoKey
    /\ \E d \in SaveDirs : tb = [NoSave EXCEPT !.dir = d]
    /\ tmr = NoTimer
    /\ nav = NoNav
    /\ tq = NoTools

ToolbarSpec == ToolbarInit /\ [][ToolbarNext]_vars

\* C10: with a file name chosen, a raising savefig gives exactly one error
\* dialog, is not tried again and its exception does not leave save_figure;
\* a savefig that succeeds gives no error dialog.
C10_SaveError ==
    tb.fname # "" =>
        /\ tb.calls = 1
        /\ ~tb.escaped
        /\ tb.dialogs = (IF tb.outcome = "raise" THEN 1 ELSE 0)

C10_Witness ==
    /\ tb.fname = "/a/fig.png" /\ tb.outcome = "raise" /\ tb.dialogs = 1
    /\ tb.calls = 1 /\ ~tb.escaped /\ "/a/fig.png" \notin tb.files

\* ---------------------------------------------------------------- TimerQT

\* longest timer interval set (TimerSpec)
MaxInterval == 2

\* A method of the native timer called by a hook: `after` is the timer once
\* the method has taken effect.  On a destroyed native timer the method has
\* nothing to act on (the binding raises) and the call is recorded.
NativeCall(t, op, after) ==
    IF t.deleted
    THEN [t EXCEPT !.op = op, !.onDestroyed = TRUE]
    ELSE [after EXCEPT !.op = op, !.onDestroyed = FALSE]

\* TimerQT._timer_start: self._timer.start()
_timer_start(t) == NativeCall(t, "start", [t EXCEPT !.active = TRUE])

\* TimerQT._timer_stop: self._timer.stop()
_timer_stop(t) == NativeCall(t, "stop", [t EXCEPT !.active = FALSE])

\* TimerQT._timer_set_interval: self._timer.setInterval(self._interval)
_timer_set_interval(t) ==
    NativeCall(t, "set_interval", [t EXCEPT !.interval = t._interval])

\* TimerQT._timer_set_single_shot: self._timer.setSingleShot(self._single)
_timer_set_single_shot(t) ==
    NativeCall(t, "set_single_shot", [t EXCEPT !.single = t._single])

\* TimerQT.__del__: stops the timer unless the native timer is destroyed.
__del__(t) ==
    LET u == [t EXCEPT !.alive = FALSE, !.op = "del", !.onDestroyed = FALSE]
    IN  IF ~t.deleted THEN [_timer_stop(u) EXCEPT !.op = "del"] ELSE u

TimerUnchanged == UNCHANGED <<canvasVars, mouse, kbd, tb, nav, tq>>

\* TimerBase.start / stop and the interval and single_shot setters (which
\* store the attribute and call the hook), called by the owner of the timer
\* while the TimerQT lives.
TimerStart ==
    /\ tmr.alive
    /\ tmr' = _timer_start(tmr)
    /\ TimerUnchanged

TimerStop ==
    /\ tmr.alive
    /\ tmr' = _timer_stop(tmr)
    /\ TimerUnchanged

TimerSetInterval(i) ==
    /\ tmr.alive
    /\ tmr' = _timer_set_interval([tmr EXCEPT !._interval = i])
    /\ TimerUnchanged

TimerSetSingleShot(single) ==
    /\ tmr.alive
    /\ tmr' = _timer_set_single_shot([tmr EXCEPT !._single = single])
    /\ TimerUnchanged

\* The native timer times out (_on_timer): a single-shot timer stops.
TimerTimeout ==
    /\ tmr.active /\ ~tmr.deleted
    /\ tmr' = [tmr EXCEPT !.active = ~tmr.single, !.op = "timeout",
                          !.onDestroyed = FALSE]
    /\ TimerUnchanged

\* The toolkit destroys the native timer (application shutdown, _destroy()).
NativeDestroyed ==
    /\ ~tmr.deleted
    /\ tmr' = [tmr EXCEPT !.deleted = TRUE, !.active = FALSE,
                          !.op = "destroyed", !.onDestroyed = FALSE]
    /\ TimerUnchanged

\* The TimerQT is collected: __del__ runs.
TimerFinalised ==
    /\ tmr.alive
    /\ tmr' = __del__(tmr)
    /\ TimerUnchanged

TimerNext ==
    \/ TimerStart
    \/ TimerStop
    \/ \E i \in 0..MaxInterval : TimerSetInterval(i)
    \/ \E single \in BOOLEAN : TimerSetSingleShot(single)
    \/ TimerTimeout
    \/ NativeDestroyed
    \/ TimerFinalised

TimerInit ==
    /\ CanvasInit
    /\ device_pixel_ratio = 1
    /\ figH = 1
    /\ mouse = NoMouse
    /\ kbd = NoKey
    /\ tb = NoSave
    /\ tmr = NoTimer
    /\ nav = NoNav
    /\ tq = NoTools

TimerSpec == TimerInit /\ [][TimerNext]_vars

\* C11: no TimerQT operation (start, stop, set interval, set single-shot, the
\* finaliser's stop) is applied to the native timer after the native timer
\* has been destroyed.
C11_NoUseAfterDestroy == ~tmr.onDestroyed

\* ------------------------------------- toolbar: mode and history buttons

\* most views kept on the navigation stack (NavSpec)
MaxStack == 3

\* setChecked / setEnabled of the button `name`
SetMember(S, name, on) == IF on THEN S \cup {name} ELSE S \ {name}

\* _update_buttons_checked(): n = the toolbar (actions: the callbacks that
\* have a button, mode: self.mode.name, checked: the checked buttons).
\* Faulty variant: the zoom button is not synchronised.
_update_buttons_checked_pan_only(n) ==
    IF "pan" \in n.actions
    THEN [n EXCEPT !.checked = SetMember(n.checked, "pan", n.mode = "PAN")]
    ELSE n

_update_buttons_checked(n) ==
    LET c1 == IF "pan" \in n.actions
              THEN SetMember(n.checked, "pan", n.mode = "PAN")
              ELSE n.checked
        c2 == IF "zoom" \in n.actions
              THEN SetMember(c1, "zoom", n.mode = "ZOOM")
              ELSE c1
    IN  [n EXCEPT !.checked = c2]

\* super().pan() / super().zoom() of the plotting library: the mode is
\* toggled between `which` and NONE, unless another widget holds the canvas's
\* widget lock (n.locked), in which case the mode stays.
ToggleMode(n, which) ==
    IF n.locked THEN n
    ELSE [n EXCEPT !.mode = IF n.mode = which THEN "NONE" ELSE which]

\* NavigationToolbar2QT.pan and .zoom
pan(n) == [_update_buttons_checked(ToggleMode(n, "PAN")) EXCEPT !.op = "pan"]

zoom(n) == [_update_buttons_checked(ToggleMode(n, "ZOOM")) EXCEPT !.op = "zoom"]

\* set_history_buttons(): pos = self._nav_stack._pos, len =
\* len(self._nav_stack._elements), enabled: the enabled history buttons.
\* Faulty variant: forward stays enabled on the last view.
set_history_buttons_off_by_one(n) ==
    LET can_backward == n.pos > 0
        can_forward == n.pos < n.len
        e1 == IF "back" \in n.actions
              THEN SetMember(n.enabled, "back", can_backward) ELSE n.enabled
        e2 == IF "forward" \in n.actions
              THEN SetMember(e1, "forward", can_forward) ELSE e1
    IN  [n EXCEPT !.enabled = e2]

set_history_buttons(n) ==
    LET can_backward == n.pos > 0
        can_forward == n.pos < n.len - 1
        e1 == IF "back" \in n.actions
              THEN SetMember(n.enabled, "back", can_backward) ELSE n.enabled
        e2 == IF "forward" \in n.actions
              THEN SetMember(e1, "forward", can_forward) ELSE e1
    IN  [n EXCEPT !.enabled = e2]

NavUnchanged == UNCHANGED <<canvasVars, mouse, kbd, tb, tmr, tq>>

\* pan() / zoom() called by the program or a key binding.
PanCall ==
    /\ nav' = pan(nav)
    /\ NavUnchanged

ZoomCall ==
    /\ nav' = zoom(nav)
    /\ NavUnchanged

\* The user clicks the checkable pan / zoom button: the toolkit toggles the
\* button, then `triggered` calls the method.
ButtonClicked(name) ==
    /\ name \in nav.actions
    /\ LET n == [nav EXCEPT
                   !.checked = SetMember(nav.checked, name, name \notin nav.checked)]
       IN  nav' = IF name = "pan" THEN pan(n) ELSE zoom(n)
    /\ NavUnchanged

\* Another widget takes or releases the canvas's widget lock; the toolbar
\* holds it itself while a mode is on.
WidgetLock ==
    /\ nav.mode = "NONE"
    /\ nav' = [nav EXCEPT !.locked = ~nav.locked, !.op = "lock"]
    /\ NavUnchanged

\* The plotting library moves on its navigation stack (push_current, which
\* drops the views after the current one, back, forward, and update, which
\* clears it) and calls set_history_buttons().
NavStack(op) ==
    /\ op = "push" => nav.pos + 1 < MaxStack
    /\ LET pl == CASE op = "push" -> <<nav.pos + 1, nav.pos + 2>>
                   [] op = "back" ->
                        <<IF nav.pos > 0 THEN nav.pos - 1 ELSE nav.pos, nav.len>>
                   [] op = "forward" ->
                        <<IF nav.pos < nav.len - 1 THEN nav.pos + 1 ELSE nav.pos,
                          nav.len>>
                   [] op = "clear" -> <<-1, 0>>
       IN  nav' = [set_history_buttons([nav EXCEPT !.pos = pl[1], !.len = pl[2]])
                     EXCEPT !.op = op]
    /\ NavUnchanged

NavNext ==
    \/ PanCall
    \/ ZoomCall
    \/ \E name \in {"pan", "zoom"} : ButtonClicked(name)
    \/ WidgetLock
    \/ \E op \in {"push", "back", "forward", "clear"} : NavStack(op)

\* toolitems: the default ones, or a subclass's without some of the buttons
ToolItems ==
    {{"pan", "zoom", "back", "forward"}, {"pan", "back"}, {"zoom", "forward"},
     {}}

NavInit ==
    /\ CanvasInit
    /\ device_pixel_ratio = 1
    /\ figH = 1
    /\ mouse = NoMouse
    /\ kbd = NoKey
    /\ tb = NoSave
    /\ tmr = NoTimer
    /\ \E items \in ToolItems : nav = [NoNav EXCEPT !.actions = items]
    /\ tq = NoTools

NavSpec == NavInit /\ [][NavNext]_vars

\* C12: after any sequence of pan() and zoom() calls (and button clicks) the
\* pan button is checked exactly when the mode is PAN, the zoom button
\* exactly when the mode is ZOOM, and the two are never both checked.
C12_ButtonsFollowMode ==
    /\ "pan" \in nav.actions => ("pan" \in nav.checked <=> nav.mode = "PAN")
    /\ "zoom" \in nav.actions => ("zoom" \in nav.checked <=> nav.mode = "ZOOM")
    /\ ~("pan" \in nav.checked /\ "zoom" \in nav.checked)

C12_Witness ==
    /\ nav.op = "zoom" /\ nav.mode = "ZOOM" /\ nav.checked = {"zoom"}
    /\ nav.actions = {"pan", "zoom", "back", "forward"}

\* C13: after set_history_buttons() the back button is enabled exactly when
\* the stack position is greater than 0 and the forward button exactly when
\* the position is less than the last index; with an empty stack both are
\* disabled.
C13_HistoryButtons ==
    /\ "back" \in nav.actions => ("back" \in nav.enabled <=> nav.pos > 0)
    /\ "forward" \in nav.actions =>
          ("forward" \in nav.enabled <=> nav.pos < nav.len - 1)
    /\ nav.len = 0 => nav.enabled = {}

C13_Witness ==
    /\ nav.op = "back" /\ nav.len = 3 /\ nav.pos = 1
    /\ nav.enabled = {"back", "forward"}

\* ---------------------------------------------------------------- ToolbarQt

\* most buttons added under one tool name (ToolSpec)
MaxButtons == 2

\* the tools that are toggle tools (add_toolitem's `toggle`)
ToggleTools == {"zoom", "pan"}

\* add_toolitem(name, ..., toggle): a new button, checkable and with the
\* handler on `toggled` for a toggle tool, with the handler on `clicked`
\* otherwise; appended to _toolitems[name].
add_toolitem(t, name, toggle) ==
    LET button == [checkable |-> toggle, checked |-> FALSE,
                   toggledConn |-> IF toggle THEN 1 ELSE 0,
                   clickedConn |-> IF toggle THEN 0 ELSE 1]
    IN  [t EXCEPT !.names = t.names \cup {name},
                  !.items[name] = Append(t.items[name], button),
                  !.op = "add_toolitem", !.name = name, !.toggled = FALSE,
                  !.triggers = 0, !.raised = "none"]

\* One round of toggle_toolitem's loop on button b:
\*   button.toggled.disadd(handler): an AttributeError when the binding's
\*     signal has no method `disadd`; otherwise the handler is disconnected;
\*   button.setChecked(toggled): a checkable button whose state changes emits
\*     `toggled`, which calls every handler still connected (trigger_tool);
\*   button.toggled.add(handler): the handler is connected (again).
toggle_button(b, toggled, disadd) ==
    IF ~disadd
    THEN [button |-> b, triggers |-> 0, raised |-> "AttributeError"]
    ELSE LET left == IF b.toggledConn > 0 THEN b.toggledConn - 1 ELSE 0
             emits == b.checkable /\ b.checked # toggled
         IN  [button |-> [b EXCEPT
                            !.checked = IF b.checkable THEN toggled ELSE b.checked,
                            !.toggledConn = left + 1],
              triggers |-> IF emits THEN left ELSE 0,
              raised |-> "none"]

\* The loop over _toolitems[name]; it ends at the first exception.
RECURSIVE toggle_buttons(_, _, _)
toggle_buttons(buttons, toggled, disadd) ==
    IF Len(buttons) = 0
    THEN [buttons |-> << >>, triggers |-> 0, raised |-> "none"]
    ELSE LET first == toggle_button(Head(buttons), toggled, disadd)
         IN  IF first.raised # "none"
             THEN [buttons |-> buttons, triggers |-> first.triggers,
                   raised |-> first.raised]
             ELSE LET rest == toggle_buttons(Tail(buttons), toggled, disadd)
                  IN  [buttons |-> <<first.button>> \o rest.buttons,
                       triggers |-> first.triggers + rest.triggers,
                       raised |-> rest.raised]

\* toggle_toolitem(name, toggled)
toggle_toolitem(t, name, toggled) ==
    IF name \notin t.names
    THEN [t EXCEPT !.op = "toggle_toolitem", !.name = name,
                   !.toggled = toggled, !.triggers = 0, !.raised = "none"]
    ELSE LET r == toggle_buttons(t.items[name], toggled, t.disadd)
         IN  [t EXCEPT !.items[name] = r.buttons,
                       !.op = "toggle_toolitem", !.name = name,
                       !.toggled = toggled, !.triggers = r.triggers,
                       !.raised = r.raised]

\* remove_toolitem(name): the buttons leave the toolbar and the key is
\* deleted.
remove_toolitem(t, name) ==
    [t EXCEPT !.names = t.names \ {name}, !.items[name] = << >>,
              !.op = "remove_toolitem", !.name = name, !.toggled = FALSE,
              !.triggers = 0, !.raised = "none"]

\* handler(): self.trigger_tool(name).  The tool manager switches a toggle
\* tool and has the toolbar show it: toggle_toolitem(name, tool.toggled).
handler(t, name) ==
    IF name \in ToggleTools
    THEN LET on == IF name \in t.on THEN t.on \ {name} ELSE t.on \cup {name}
         IN  toggle_toolitem([t EXCEPT !.on = on], name, name \in on)
    ELSE t

ToolUnchanged == UNCHANGED <<canvasVars, mouse, kbd, tb, tmr, nav>>

\* The tool manager adds a tool to the toolbar.
AddToolitem(name) ==
    /\ Len(tq.items[name]) < MaxButtons
    /\ tq' = add_toolitem(tq, name, name \in ToggleTools)
    /\ ToolUnchanged

\* toggle_toolitem called by the tool manager or the program, for any name.
ToggleToolitem(name, toggled) ==
    /\ tq' = toggle_toolitem(tq, name, toggled)
    /\ ToolUnchanged

\* remove_toolitem for a registered name.
RemoveToolitem(name) ==
    /\ name \in tq.names
    /\ tq' = remove_toolitem(tq, name)
    /\ ToolUnchanged

\* The user clicks button i of `name`.  A checkable button changes its state
\* and emits `toggled`, any button emits `clicked`; a connected handler runs.
ToolButtonPressed(name, i) ==
    /\ name \in tq.names
    /\ i \in 1..Len(tq.items[name])
    /\ LET b == tq.items[name][i]
           pressed == [tq EXCEPT !.items[name][i].checked =
                                    IF b.checkable THEN ~b.checked ELSE b.checked]
           calls == IF b.checkable THEN b.toggledConn ELSE b.clickedConn
           after == IF calls > 0 THEN handler(pressed, name) ELSE pressed
       IN  tq' = [after EXCEPT !.op = "pressed", !.name = name,
                               !.toggled = after.items[name][i].checked,
                               !.triggers = calls]
    /\ ToolUnchanged

ToolNext ==
    \/ \E name \in ToolNames : AddToolitem(name)
    \/ \E name \in ToolNames, toggled \in BOOLEAN : ToggleToolitem(name, toggled)
    \/ \E name \in ToolNames : RemoveToolitem(name)
    \/ \E name \in ToolNames, i \in 1..MaxButtons : ToolButtonPressed(name, i)

\* The binding either has a signal method `disadd` or has not.
ToolInit ==
    /\ CanvasInit
    /\ device_pixel_ratio = 1
    /\ figH = 1
    /\ mouse = NoMouse
    /\ kbd = NoKey
    /\ tb = NoSave
    /\ tmr = NoTimer
    /\ nav = NoNav
    /\ \E d \in BOOLEAN : tq = [NoTools EXCEPT !.disadd = d]

ToolSpec == ToolInit /\ [][ToolNext]_vars

\* C21: toggle_toolitem(name, toggled) sets the checked state of every
\* (checkable) button registered under name, calls trigger_tool for none of
\* them, and leaves each with its handler connected to `toggled` exactly
\* once; for a name that is not registered it changes nothing.
C21_ToggleToolitem ==
    /\ []((tq.op = "toggle_toolitem" /\ tq.name \in tq.names) =>
            /\ tq.raised = "none"
            /\ tq.triggers = 0
            /\ \A i \in 1..Len(tq.items[tq.name]) :
                 tq.items[tq.name][i].checkable =>
                    /\ tq.items[tq.name][i].checked = tq.toggled
                    /\ tq.items[tq.name][i].toggledConn = 1)
    /\ [][\A name \in ToolNames, toggled \in BOOLEAN :
            (ToggleToolitem(name, toggled) /\ name \notin tq.names) =>
                (/\ tq'.items = tq.items /\ tq'.names = tq.names
                 /\ tq'.on = tq.on /\ tq'.raised = "none")]_vars

\* With a binding that has `disadd`, the state part of C21 holds.
C21_WithDisadd ==
    (tq.disadd /\ tq.op = "toggle_toolitem" /\ tq.name \in tq.names) =>
        /\ tq.raised = "none"
        /\ tq.triggers = 0
        /\ \A i \in 1..Len(tq.items[tq.name]) :
             tq.items[tq.name][i].checkable =>
                /\ tq.items[tq.name][i].checked = tq.toggled
                /\ tq.items[tq.name][i].toggledConn = 1

====
